---- MODULE Spec2Model ----
(***************************************************************************)
(* Watchdog4Git: the LFS checks of watchdog/watchdog.go.                   *)
(*                                                                         *)
(* Check walks the commits of a push; every distinct commit is handed to   *)
(* a goroutine that loads .github/watchdog.yml and .gitattributes at the   *)
(* commit, resolves the size of every added or modified file through a     *)
(* directory listing, validates LFS pointers or applies the size           *)
(* thresholds, and posts one commit comment.                               *)
(*                                                                         *)
(* The GitHub API is the environment: every call draws its response from a *)
(* small set (a transport error, or one of a few payloads).                *)
(***************************************************************************)
EXTENDS Integers, Sequences, FiniteSets, TLC

\* ------------------------------------------------------------------ bounds
\* commits in one push of Pushes
MaxCommits == 2
\* distinct commits in one push of Pushes
MaxDistinct == 1
\* files (added, modified and removed) named by one push
MaxFiles == 2
\* files in the added list, in the modified list and in the removed list of
\* one commit
MaxListed == 1

\* ------------------------------------------------------- program constants
lfsPtrBlobMinSize == 20
lfsPtrBlobMaxSize == 150
\* len(dirContent) >= 1000 in getDirContent
GetContentsUpperLimit == 1000
DefaultLFSSizeThreshold == 512000
DefaultLFSSizeExemptionsThreshold == 20000000

Nil == "nil"

\* ------------------------------------------------------------------- paths
\* A path is its directory, the stem of its base name and its extension.
MkPath(d, s, e) == [dir |-> d, stem |-> s, ext |-> e]

DataXml == MkPath("", "data", "xml")
ImgPsd == MkPath("assets", "img", "psd")
MainGo == MkPath("", "main", "go")

\* the paths a push payload may name
Paths == {DataXml, ImgPsd, MainGo}

\* -------------------------------------------------- filepathfilter.Filter
\* Patterns: "*.ext" or a literal path.
ExtPattern(e) == [kind |-> "ext", ext |-> e]
PathPattern(p) == [kind |-> "path", path |-> p]

Match(pattern, file) ==
    IF pattern.kind = "ext" THEN file.ext = pattern.ext ELSE file = pattern.path

\* a nil *filepathfilter.Filter
NilFilter == [nil |-> TRUE, include |-> << >>]

\* filepathfilter.New(include, nil)
NewFilter(include) == [nil |-> FALSE, include |-> include]

\* (*Filter).Allows: a nil filter and a filter without include patterns
\* allow every path.
Allows(f, file) ==
    IF f.nil THEN TRUE
    ELSE LET included == \E i \in DOMAIN f.include : Match(f.include[i], file)
         IN  IF ~included /\ Len(f.include) > 0 THEN FALSE ELSE TRUE

\* ---------------------------------------------------------- watchdogConfig
DefaultHelpContact == "@mlbright or @larsxschneider"

defaultWatchDogConfig ==
    [HelpContact |-> DefaultHelpContact,
     LFSSuggestionsEnabled |-> TRUE,
     LFSSizeThreshold |-> DefaultLFSSizeThreshold,
     LFSSizeExemptions |-> << >>,
     LFSSizeExemptionsThreshold |-> DefaultLFSSizeExemptionsThreshold,
     LFSExemptionsFilter |-> NilFilter]

\* A .github/watchdog.yml document: the keys it sets (a key it omits is not
\* in the domain), and whether it has a key watchdogConfig does not know.
YamlDoc(fields, unknown) == [fields |-> fields, unknownKey |-> unknown, malformed |-> FALSE]

\* a content that is not YAML
MalformedDoc == [fields |-> << >>, unknownKey |-> FALSE, malformed |-> TRUE]

\* what UnmarshalStrict has written to config when it returns: every field
\* at the document's value, or Go's zero value
Unmarshalled(doc) ==
    LET exemptions == IF "lfsSizeExemptions" \in DOMAIN doc.fields
                      THEN doc.fields["lfsSizeExemptions"] ELSE << >>
    IN  [HelpContact |->
             IF "helpContact" \in DOMAIN doc.fields
             THEN doc.fields["helpContact"] ELSE "",
         LFSSuggestionsEnabled |->
             IF "lfsSuggestionsEnabled" \in DOMAIN doc.fields
             THEN doc.fields["lfsSuggestionsEnabled"] ELSE FALSE,
         LFSSizeThreshold |->
             IF "lfsSizeThreshold" \in DOMAIN doc.fields
             THEN doc.fields["lfsSizeThreshold"] ELSE 0,
         LFSSizeExemptions |-> exemptions,
         LFSSizeExemptionsThreshold |->
             IF "lfsSizeExemptionsThreshold" \in DOMAIN doc.fields
             THEN doc.fields["lfsSizeExemptionsThreshold"] ELSE 0,
         LFSExemptionsFilter |-> NilFilter]

\* variant: after a failed UnmarshalStrict the config it was filling is
\* returned with the error
getWatchDogConfigPartial(resp) ==
    IF resp.err
    THEN [config |-> defaultWatchDogConfig, err |-> "fetch"]
    ELSE IF resp.doc.malformed \/ resp.doc.unknownKey
    THEN [config |-> Unmarshalled(resp.doc), err |-> "yaml"]
    ELSE LET config == Unmarshalled(resp.doc)
         IN  [config |-> [config EXCEPT
                             !.LFSExemptionsFilter = NewFilter(config.LFSSizeExemptions)],
              err |-> Nil]

\* the value UnmarshalStrict leaves in a field: the document's, or Go's zero
\* value of the field's type
Field(doc, key, zero) ==
    IF key \in DOMAIN doc.fields THEN doc.fields[key] ELSE zero

\* getWatchDogConfig(ref): resp is what getFileContent(ref, configFile) gave
getWatchDogConfig(resp) ==
    IF resp.err
    THEN [config |-> defaultWatchDogConfig, err |-> "fetch"]
    ELSE IF resp.doc.malformed \/ resp.doc.unknownKey
    THEN [config |-> defaultWatchDogConfig, err |-> "yaml"]
    ELSE LET exemptions == Field(resp.doc, "lfsSizeExemptions", << >>)
         IN  [config |->
                [HelpContact |-> Field(resp.doc, "helpContact", ""),
                 LFSSuggestionsEnabled |->
                     Field(resp.doc, "lfsSuggestionsEnabled", FALSE),
                 LFSSizeThreshold |-> Field(resp.doc, "lfsSizeThreshold", 0),
                 LFSSizeExemptions |-> exemptions,
                 LFSSizeExemptionsThreshold |->
                     Field(resp.doc, "lfsSizeExemptionsThreshold", 0),
                 LFSExemptionsFilter |-> NewFilter(exemptions)],
              err |-> Nil]

\* ------------------------------------------------ attributes (.gitattributes)
\* A line of .gitattributes after TrimSpace: blank, a # comment, or a rule
\* (its first field, a pattern, and the attributes that follow it).
BlankLine == [kind |-> "blank"]
CommentLine == [kind |-> "comment"]
RuleLine(pattern, attrs) == [kind |-> "rule", pattern |-> pattern, attrs |-> attrs]

\* strings.Contains(line, "filter=lfs")
ContainsFilterLFS(line) ==
    line.kind = "rule" /\ \E i \in DOMAIN line.attrs : line.attrs[i] = "filter=lfs"

RECURSIVE LFSPaths(_)
LFSPaths(lines) ==
    IF lines = << >> THEN << >>
    ELSE LET line == Head(lines)
         IN  IF line.kind = "comment" THEN LFSPaths(Tail(lines))
             ELSE IF ContainsFilterLFS(line)
             THEN <<line.pattern>> \o LFSPaths(Tail(lines))
             ELSE LFSPaths(Tail(lines))

\* variant: a filter is built also from no pattern
GetAttributePathsEmptyFilter(lines) == NewFilter(LFSPaths(lines))

\* attributes.GetAttributePaths(attributesText)
GetAttributePaths(lines) ==
    LET paths == LFSPaths(lines)
    IN  IF Len(paths) = 0 THEN NilFilter ELSE NewFilter(paths)

\* getAttributeFilter(ref): resp is what getFileContent(ref, ".gitattributes") gave
getAttributeFilter(resp) ==
    IF resp.err THEN [filter |-> NilFilter, err |-> "fetch"]
    ELSE [filter |-> GetAttributePaths(resp.text), err |-> Nil]

\* --------------------------------------------------------------- SizeResolver
errGetContentsUpperLimit == "errGetContentsUpperLimit"
errTransport == "transport error"
errNoContent == "directory has no content"
errWrongKind == "name matches, but object is not a file"
errMissing == "something is seriously wrong"

\* A directory listing is the entries it shows for the paths of the model
\* (shown, in the order returned) and the number of further entries, all of
\* them for other paths (more): len(dirContent) = Len(shown) + more.
Listing(shown, more) == [kind |-> "dir", shown |-> shown, more |-> more]
ListingLen(dirContent) == Len(dirContent.shown) + dirContent.more
\* a nil []*github.RepositoryContent
NoListing == [kind |-> "nil", shown |-> << >>, more |-> 0]

\* variant: only a listing of more than 1000 entries counts as cut off
getDirContentAtLimit(resp) ==
    IF resp.kind = "error" THEN [dirContent |-> NoListing, err |-> errTransport]
    ELSE IF resp.kind = "nil" THEN [dirContent |-> NoListing, err |-> errNoContent]
    ELSE IF ListingLen(resp) > GetContentsUpperLimit
    THEN [dirContent |-> resp, err |-> errGetContentsUpperLimit]
    ELSE [dirContent |-> resp, err |-> Nil]

\* getDirContent(ref, path): resp is what Repositories.GetContents gave
getDirContent(resp) ==
    IF resp.kind = "error" THEN [dirContent |-> NoListing, err |-> errTransport]
    ELSE IF resp.kind = "nil" THEN [dirContent |-> NoListing, err |-> errNoContent]
    ELSE IF ListingLen(resp) >= GetContentsUpperLimit
    THEN [dirContent |-> resp, err |-> errGetContentsUpperLimit]
    ELSE [dirContent |-> resp, err |-> Nil]

\* the loop of getFileSize over dirContent: the first entry whose path is
\* the file decides
RECURSIVE SearchEntries(_, _)
SearchEntries(entries, file) ==
    IF entries = << >> THEN [found |-> FALSE, size |-> -1, err |-> Nil]
    ELSE LET entry == Head(entries)
         IN  IF entry.path = file
             THEN IF entry.type = "file"
                  THEN [found |-> TRUE, size |-> entry.size, err |-> Nil]
                  ELSE [found |-> TRUE, size |-> -1, err |-> errWrongKind]
             ELSE SearchEntries(Tail(entries), file)

RECURSIVE SearchEntriesAnyType(_, _)
SearchEntriesAnyType(entries, file) ==
    IF entries = << >> THEN [found |-> FALSE, size |-> -1, err |-> Nil]
    ELSE LET entry == Head(entries)
         IN  IF entry.path = file
             THEN [found |-> TRUE, size |-> entry.size, err |-> Nil]
             ELSE SearchEntriesAnyType(Tail(entries), file)

\* variant: the type of the matching entry is not looked at
getFileSizeAnyType(resp, file) ==
    LET dir == getDirContent(resp)
    IN  IF dir.err \notin {Nil, errGetContentsUpperLimit}
        THEN [size |-> -1, err |-> dir.err]
        ELSE LET hit == SearchEntriesAnyType(dir.dirContent.shown, file)
             IN  IF hit.found THEN [size |-> hit.size, err |-> hit.err]
                 ELSE IF dir.err = errGetContentsUpperLimit
                 THEN [size |-> -1, err |-> dir.err]
                 ELSE [size |-> -1, err |-> errMissing]

\* variant: a listing at the limit is given up without a search
getFileSizeNoSearch(resp, file) ==
    LET dir == getDirContent(resp)
    IN  IF dir.err # Nil
        THEN [size |-> -1, err |-> dir.err]
        ELSE LET hit == SearchEntries(dir.dirContent.shown, file)
             IN  IF hit.found THEN [size |-> hit.size, err |-> hit.err]
                 ELSE [size |-> -1, err |-> errMissing]

\* getFileSize(ref, file): resp is what GetContents gave for filepath.Dir(file)
getFileSize(resp, file) ==
    LET dir == getDirContent(resp)
    IN  IF dir.err \notin {Nil, errGetContentsUpperLimit}
        THEN [size |-> -1, err |-> dir.err]
        ELSE LET hit == SearchEntries(dir.dirContent.shown, file)
             IN  IF hit.found THEN [size |-> hit.size, err |-> hit.err]
                 ELSE IF dir.err = errGetContentsUpperLimit
                 THEN [size |-> -1, err |-> dir.err]
                 ELSE [size |-> -1, err |-> errMissing]

\* ----------------------------------------------------------- PointerValidator
errLFSPointer == "LFS pointer size or structure is incorrect"
errGetFileContent == "could not get file content"

\* lfs.DecodePointer: the content is the set of keys of its key-value
\* lines; a pointer has version, oid and size.
DecodePointer(content) == {"version", "oid", "size"} \subseteq content.keys

\* variant: the size window is open at its upper end
validateLFSPointerOpenWindow(size, resp) ==
    IF size >= lfsPtrBlobMaxSize THEN [err |-> errLFSPointer, fetched |-> FALSE]
    ELSE IF size < lfsPtrBlobMinSize THEN [err |-> errLFSPointer, fetched |-> FALSE]
    ELSE IF resp.err # Nil THEN [err |-> resp.err, fetched |-> TRUE]
    ELSE IF ~DecodePointer(resp.content) THEN [err |-> errLFSPointer, fetched |-> TRUE]
    ELSE [err |-> Nil, fetched |-> TRUE]

\* variant: the error of DecodePointer is dropped
validateLFSPointerNoDecode(size, resp) ==
    IF size > lfsPtrBlobMaxSize THEN [err |-> errLFSPointer, fetched |-> FALSE]
    ELSE IF size < lfsPtrBlobMinSize THEN [err |-> errLFSPointer, fetched |-> FALSE]
    ELSE IF resp.err # Nil THEN [err |-> resp.err, fetched |-> TRUE]
    ELSE [err |-> Nil, fetched |-> TRUE]

\* variant: every failure is reported as errLFSPointer
validateLFSPointerOneError(size, resp) ==
    IF size > lfsPtrBlobMaxSize THEN [err |-> errLFSPointer, fetched |-> FALSE]
    ELSE IF size < lfsPtrBlobMinSize THEN [err |-> errLFSPointer, fetched |-> FALSE]
    ELSE IF resp.err # Nil THEN [err |-> errLFSPointer, fetched |-> TRUE]
    ELSE IF ~DecodePointer(resp.content) THEN [err |-> errLFSPointer, fetched |-> TRUE]
    ELSE [err |-> Nil, fetched |-> TRUE]

\* validateLFSPointer(ref, file, size): resp is what getFileContent(ref, file)
\* gives; it is asked for only when fetched is TRUE
validateLFSPointer(size, resp) ==
    IF size > lfsPtrBlobMaxSize THEN [err |-> errLFSPointer, fetched |-> FALSE]
    ELSE IF size < lfsPtrBlobMinSize THEN [err |-> errLFSPointer, fetched |-> FALSE]
    ELSE IF resp.err # Nil THEN [err |-> resp.err, fetched |-> TRUE]
    ELSE IF ~DecodePointer(resp.content) THEN [err |-> errLFSPointer, fetched |-> TRUE]
    ELSE [err |-> Nil, fetched |-> TRUE]

\* ------------------------------------------------------------------ Classifier
\* lfsFilter != nil && lfsFilter.Allows(file)
IsLFSDeclared(lfsFilter, file) == ~lfsFilter.nil /\ Allows(lfsFilter, file)

\* variant: the thresholds are compared with >=
ExceedsThresholdInclusive(config, file, size) ==
    IF Allows(config.LFSExemptionsFilter, file)
    THEN size >= config.LFSSizeExemptionsThreshold
    ELSE size >= config.LFSSizeThreshold

\* variant: an exempt file is held to the larger of the two thresholds
ExceedsThresholdClamped(config, file, size) ==
    IF Allows(config.LFSExemptionsFilter, file)
    THEN size > config.LFSSizeExemptionsThreshold /\ size > config.LFSSizeThreshold
    ELSE size > config.LFSSizeThreshold

\* the size test of the suggestion branch of Check
ExceedsThreshold(config, file, size) ==
    IF Allows(config.LFSExemptionsFilter, file)
    THEN size > config.LFSSizeExemptionsThreshold
    ELSE size > config.LFSSizeThreshold

\* variant: every commit of the push is processed
ProcessAlways(commit) == TRUE

\* Check hands a commit to a goroutine only if it is distinct
Process(commit) == commit.Distinct

\* ------------------------------------------------- the GitHub API's responses
\* entries of a listing that may be shown, beside those counted in more
MaxShown == 2

Sizes == {19, 20, 150, 151, 500000, 512000, 600000, 5000000, 25000000}

\* the watchdog.yml of the README
ReadmeYaml ==
    [helpContact |-> "#your-channel",
     lfsSizeThreshold |-> 512000,
     lfsSizeExemptions |->
         <<PathPattern(MkPath("testdata", "largetext", "txt")), ExtPattern("xml")>>,
     lfsSizeExemptionsThreshold |-> 20000000,
     lfsSuggestionsEnabled |-> TRUE]

Omit(fields, key) == [k \in DOMAIN fields \ {key} |-> fields[k]]

YamlDocs ==
    {YamlDoc(ReadmeYaml, FALSE),
     YamlDoc(Omit(ReadmeYaml, "lfsSizeExemptions"), FALSE),
     YamlDoc(Omit(ReadmeYaml, "lfsSizeExemptionsThreshold"), FALSE),
     YamlDoc([lfsSizeExemptions |-> ReadmeYaml.lfsSizeExemptions], FALSE),
     YamlDoc([ReadmeYaml EXCEPT !.lfsSizeExemptionsThreshold = 100000], FALSE),
     YamlDoc([ReadmeYaml EXCEPT !.lfsSuggestionsEnabled = FALSE], FALSE),
     YamlDoc(ReadmeYaml, TRUE),
     MalformedDoc}

NoDoc == YamlDoc(<< >>, FALSE)

ConfigResponses ==
    {[err |-> TRUE, doc |-> NoDoc]} \cup {[err |-> FALSE, doc |-> d] : d \in YamlDocs}

AttributesTexts ==
    {<< >>,
     <<CommentLine,
       RuleLine(ExtPattern("psd"), <<"filter=lfs", "diff=lfs", "merge=lfs", "-text">>)>>,
     <<RuleLine(ExtPattern("xml"), <<"text">>), BlankLine>>}

AttributesResponses ==
    {[err |-> TRUE, text |-> << >>]} \cup {[err |-> FALSE, text |-> t] : t \in AttributesTexts}

Entry(path, type, size) == [path |-> path, type |-> type, size |-> size]

\* other files of filepath.Dir(file)
Siblings(file) == {MkPath(file.dir, "README", "md"), MkPath(file.dir, "LICENSE", "")}

EntriesFor(file) ==
    {Entry(file, "file", n) : n \in Sizes}
    \cup {Entry(file, t, 6) : t \in {"symlink", "dir", "submodule"}}
    \cup {Entry(p, "file", 5) : p \in Siblings(file)}

\* the sequences without repeated paths over a set of entries
ShownOver(entries) ==
    {q \in UNION {[1..n -> entries] : n \in 0..MaxShown} :
        \A i, j \in DOMAIN q : i # j => q[i].path # q[j].path}

DirResponses(file) ==
    {[kind |-> "error", shown |-> << >>, more |-> 0], NoListing}
    \cup {Listing(q, m) :
            q \in ShownOver(EntriesFor(file)),
            m \in {0, GetContentsUpperLimit - 2, GetContentsUpperLimit - 1,
                   GetContentsUpperLimit}}

Content(keys) == [keys |-> keys]

ContentResponses ==
    {[err |-> errGetFileContent, content |-> Content({})],
     [err |-> Nil, content |-> Content({"version", "oid", "size"})],
     [err |-> Nil, content |-> Content({"version", "oid"})],
     [err |-> Nil, content |-> Content({})]}

\* ----------------------------------------------------------- the push payload
FileLists == UNION {[1..n -> Paths] : n \in 0..MaxListed}

CommitSet ==
    [Distinct : BOOLEAN, Added : FileLists, Modified : FileLists, Removed : FileLists]

RECURSIVE CountFiles(_)
CountFiles(commits) ==
    IF commits = << >> THEN 0
    ELSE Len(Head(commits).Added) + Len(Head(commits).Modified)
         + Len(Head(commits).Removed) + CountFiles(Tail(commits))

CountDistinct(commits) == Cardinality({i \in DOMAIN commits : commits[i].Distinct})

Pushes ==
    {p \in UNION {[1..n -> CommitSet] : n \in 0..MaxCommits} :
        CountFiles(p) <= MaxFiles /\ CountDistinct(p) <= MaxDistinct}

\* --------------------------------------------------- the comment of a commit
\* Go's integer division (truncated)
GoDiv(a, b) == IF a >= 0 THEN a \div b ELSE -((-a) \div b)

\* variant: a kilobyte of 1000 bytes
createCommentDecimalKB(lfsInvalidPointer, lfsCandidates, helpContact, sizeThreshold) ==
    [LFSInvalidPointer |-> lfsInvalidPointer,
     LFSCandidates |-> lfsCandidates,
     LFSHelpContact |-> helpContact,
     LFSSizeThresholdKB |-> GoDiv(sizeThreshold, 1000)]

\* createComment: the values handed to lfsMessageTemplate
createComment(lfsInvalidPointer, lfsCandidates, helpContact, sizeThreshold) ==
    [LFSInvalidPointer |-> lfsInvalidPointer,
     LFSCandidates |-> lfsCandidates,
     LFSHelpContact |-> helpContact,
     LFSSizeThresholdKB |-> GoDiv(sizeThreshold, 1024)]

NoComment == createComment(<< >>, << >>, "", 0)

\* ----------------------------------------------- one iteration of Check's loop
NoResp == [err |-> Nil, content |-> Content({})]

\* what getFileSize(sha, file) can return, over the listings the API can give
FileSizeResults == [f \in Paths |-> {getFileSize(d, f) : d \in DirResponses(f)}]

\* variant: the suggestion branch does not look at LFSSuggestionsEnabled
CheckFileAlwaysSuggests(config, lfsFilter, file, r, cresp) ==
    LET v == validateLFSPointer(r.size, cresp)
        skip == [size |-> r.size, err |-> r.err, validated |-> FALSE,
                 verr |-> Nil, fetched |-> FALSE, resp |-> NoResp,
                 invalid |-> FALSE, candidate |-> FALSE]
    IN  IF r.err # Nil THEN skip
        ELSE IF IsLFSDeclared(lfsFilter, file)
        THEN [skip EXCEPT !.validated = TRUE,
                          !.verr = v.err,
                          !.fetched = v.fetched,
                          !.resp = IF v.fetched THEN cresp ELSE NoResp,
                          !.invalid = (v.err = errLFSPointer)]
        ELSE [skip EXCEPT !.candidate = ExceedsThreshold(config, file, r.size)]

\* variant: the error of getFileSize is logged and the file is classified
\* with the size returned with it
CheckFileNoSkip(config, lfsFilter, file, r, cresp) ==
    LET v == validateLFSPointer(r.size, cresp)
        skip == [size |-> r.size, err |-> r.err, validated |-> FALSE,
                 verr |-> Nil, fetched |-> FALSE, resp |-> NoResp,
                 invalid |-> FALSE, candidate |-> FALSE]
    IN  IF IsLFSDeclared(lfsFilter, file)
        THEN [skip EXCEPT !.validated = TRUE,
                          !.verr = v.err,
                          !.fetched = v.fetched,
                          !.resp = IF v.fetched THEN cresp ELSE NoResp,
                          !.invalid = (v.err = errLFSPointer)]
        ELSE IF config.LFSSuggestionsEnabled
        THEN [skip EXCEPT !.candidate = ExceedsThreshold(config, file, r.size)]
        ELSE skip

\* variant: after validateLFSPointer the file goes on to the size check
CheckFileFallsThrough(config, lfsFilter, file, r, cresp) ==
    LET v == validateLFSPointer(r.size, cresp)
        skip == [size |-> r.size, err |-> r.err, validated |-> FALSE,
                 verr |-> Nil, fetched |-> FALSE, resp |-> NoResp,
                 invalid |-> FALSE, candidate |-> FALSE]
    IN  IF r.err # Nil THEN skip
        ELSE IF IsLFSDeclared(lfsFilter, file)
        THEN [skip EXCEPT !.validated = TRUE,
                          !.verr = v.err,
                          !.fetched = v.fetched,
                          !.resp = IF v.fetched THEN cresp ELSE NoResp,
                          !.invalid = (v.err = errLFSPointer),
                          !.candidate = /\ config.LFSSuggestionsEnabled
                                        /\ ExceedsThreshold(config, file, r.size)]
        ELSE IF config.LFSSuggestionsEnabled
        THEN [skip EXCEPT !.candidate = ExceedsThreshold(config, file, r.size)]
        ELSE skip

\* What the body of `for _, file := range files` does with one file: r is
\* what getFileSize returned, cresp answers the content fetch of
\* validateLFSPointer (when it fetches).  invalid and candidate say whether
\* the file is appended to lfsInvalidPointers and to lfsCandidates.
CheckFile(config, lfsFilter, file, r, cresp) ==
    LET v == validateLFSPointer(r.size, cresp)
        skip == [size |-> r.size, err |-> r.err, validated |-> FALSE,
                 verr |-> Nil, fetched |-> FALSE, resp |-> NoResp,
                 invalid |-> FALSE, candidate |-> FALSE]
    IN  IF r.err # Nil THEN skip
        ELSE IF IsLFSDeclared(lfsFilter, file)
        THEN [skip EXCEPT !.validated = TRUE,
                          !.verr = v.err,
                          !.fetched = v.fetched,
                          !.resp = IF v.fetched THEN cresp ELSE NoResp,
                          !.invalid = (v.err = errLFSPointer)]
        ELSE IF config.LFSSuggestionsEnabled
        THEN [skip EXCEPT !.candidate = ExceedsThreshold(config, file, r.size)]
        ELSE skip

\* -------------------------------------------------------------------- state
VARIABLES
    Commits,    \* the commits of the push payload
    debug,      \* WATCHDOG_DEBUG: "set" or "empty" for the whole process,
                \* "unread" until a goroutine first looks at it
    ci,         \* Check's position in Commits
    g,          \* the goroutine of each commit
    calls,      \* the API calls made for each commit, by kind
    posted,     \* the comments posted on each commit
    sz,         \* a single call of getFileSize
    cm,         \* a single call of createComment
    at,         \* a single call of attributes.GetAttributePaths
    group,      \* the GatekeeperGroup of the server: clients and its RWMutex
    requests    \* the calls of GetWatchdog, one per push event being handled

vars == <<Commits, debug, ci, g, calls, posted, sz, cm, at, group, requests>>

ZeroConfig ==
    [HelpContact |-> "",
     LFSSuggestionsEnabled |-> FALSE,
     LFSSizeThreshold |-> 0,
     LFSSizeExemptions |-> << >>,
     LFSSizeExemptionsThreshold |-> 0,
     LFSExemptionsFilter |-> NilFilter]

\* the ref of a GetContents call: a commit of the push, by its ID, or the
\* default branch of the repository
NoRef == [kind |-> "none", commit |-> 0]
Sha(c) == [kind |-> "sha", commit |-> c]
DefaultBranch == [kind |-> "branch", commit |-> 0]

\* nothing fetched
NoConfigResp == [err |-> FALSE, doc |-> NoDoc]
NoAttributesResp == [err |-> FALSE, text |-> << >>]

NoLast ==
    [valid |-> FALSE, size |-> -1, err |-> Nil, validated |-> FALSE, verr |-> Nil,
     fetched |-> FALSE, resp |-> NoResp, invalid |-> FALSE, candidate |-> FALSE]

\* a goroutine that has not been started
Idle ==
    [pc |-> "idle",
     sha |-> NoRef, added |-> << >>, modified |-> << >>,
     content |-> NoConfigResp,
     attributesText |-> NoAttributesResp,
     config |-> ZeroConfig,
     err |-> Nil,
     lfsFilter |-> NilFilter,
     files |-> << >>, fi |-> 0, last |-> NoLast,
     lfsInvalidPointers |-> << >>, lfsCandidates |-> << >>,
     comment |-> NoComment]

NoCalls ==
    [config |-> 0, attributes |-> 0, listing |-> 0, content |-> 0, comment |-> 0,
     attributesRef |-> NoRef]

SzIdle == [pc |-> "idle", file |-> MainGo, resp |-> NoListing,
           result |-> [size |-> -1, err |-> Nil]]

AtIdle == [pc |-> "idle", attributesText |-> << >>, paths |-> << >>]

CmIdle == [pc |-> "idle", lfsInvalidPointer |-> << >>, lfsCandidates |-> << >>,
           helpContact |-> "", sizeThreshold |-> 0, comment |-> NoComment]

\* ------------------------------------------------------------- clientgroup
\* the push events handled at the same time, and the installations they
\* come from
MaxRequests == 3
Requests == 1..MaxRequests
InstallationIDs == {1, 2}

\* no *watchdog.WatchDog; the WatchDog built by the call of request r is
\* told from every other by r
NoWatchDog == 0
WatchDogOf(r) == r

\* clientgroup.New: an empty map of clients and an unlocked RWMutex
New == [clients |-> [id \in InstallationIDs |-> NoWatchDog],
        readers |-> 0, writer |-> FALSE]

\* a request that has not arrived
NoRequest == [pc |-> "idle", installationID |-> 0, gatekeeper |-> NoWatchDog,
              retrieved |-> FALSE, built |-> FALSE, err |-> FALSE]
NoRequests == [r \in Requests |-> NoRequest]

Init ==
    /\ Commits \in Pushes
    /\ debug = "unread"
    /\ ci = 1
    /\ g = [c \in DOMAIN Commits |-> Idle]
    /\ calls = [c \in DOMAIN Commits |-> NoCalls]
    /\ posted = [c \in DOMAIN Commits |-> << >>]
    /\ sz = SzIdle
    /\ cm = CmIdle
    /\ at = AtIdle
    /\ group = New
    /\ requests = NoRequests

\* ------------------------------------------------------------------- Check
\* `if !commit.Distinct { continue }`
SkipCommit ==
    /\ ci <= Len(Commits)
    /\ ~Process(Commits[ci])
    /\ ci' = ci + 1
    /\ UNCHANGED <<Commits, debug, g, calls, posted, sz, cm, at, group, requests>>

\* variant: the goroutine reads the loop variable commit when it runs, after
\* the loop has gone on to the last commit
GoArgsOfLoopVariable(commits, i) ==
    [sha |-> Sha(Len(commits)),
     added |-> commits[Len(commits)].Added,
     modified |-> commits[Len(commits)].Modified]

\* the arguments of the go statement, evaluated when it is executed:
\* (commit.ID, commit.Added, commit.Modified)
GoArgs(commits, i) ==
    [sha |-> Sha(i), added |-> commits[i].Added, modified |-> commits[i].Modified]

\* `go func(sha, added, modified) {...}(commit.ID, commit.Added, commit.Modified)`
StartCommit ==
    /\ ci <= Len(Commits)
    /\ Process(Commits[ci])
    /\ LET args == GoArgs(Commits, ci)
       IN  g' = [g EXCEPT ![ci].pc = "config",
                          ![ci].sha = args.sha,
                          ![ci].added = args.added,
                          ![ci].modified = args.modified]
    /\ ci' = ci + 1
    /\ UNCHANGED <<Commits, debug, calls, posted, sz, cm, at, group, requests>>

\* getWatchDogConfig(sha), `content, err := watchdog.getFileContent(ref, configFile)`
FetchConfig(c) ==
    /\ g[c].pc = "config"
    /\ \E resp \in ConfigResponses :
          g' = [g EXCEPT ![c].pc = "config_parse", ![c].content = resp]
    /\ calls' = [calls EXCEPT ![c].config = @ + 1]
    /\ UNCHANGED <<Commits, debug, ci, posted, sz, cm, at, group, requests>>

\* `config, err := watchdog.getWatchDogConfig(sha)`, from the content on
GetWatchDogConfig(c) ==
    /\ g[c].pc = "config_parse"
    /\ LET r == getWatchDogConfig(g[c].content)
       IN  g' = [g EXCEPT ![c].pc = "filter",
                          ![c].content = NoConfigResp,
                          ![c].config = r.config,
                          ![c].err = r.err]
    /\ UNCHANGED <<Commits, debug, ci, calls, posted, sz, cm, at, group, requests>>

\* the ref Check hands to getAttributeFilter
AttributesRef(sha) == sha

\* getAttributeFilter(sha),
\* `attributesText, err := watchdog.getFileContent(ref, ".gitattributes")`
FetchAttributes(c) ==
    /\ g[c].pc = "filter"
    /\ \E resp \in AttributesResponses :
          g' = [g EXCEPT ![c].pc = "filter_parse", ![c].attributesText = resp]
    /\ calls' = [calls EXCEPT ![c].attributes = @ + 1,
                              ![c].attributesRef = AttributesRef(g[c].sha)]
    /\ UNCHANGED <<Commits, debug, ci, posted, sz, cm, at, group, requests>>

\* variant: a modified file that is also in added is taken once
FilesDeduplicated(added, modified) ==
    added \o SelectSeq(modified, LAMBDA f : \A i \in DOMAIN added : added[i] # f)

\* `files := added[:]; files = append(files, modified...)`
Files(added, modified) == added \o modified

\* `lfsFilter, err := watchdog.getAttributeFilter(sha)`, from the text on, and
\* the building of files
GetAttributeFilter(c) ==
    /\ g[c].pc = "filter_parse"
    /\ LET r == getAttributeFilter(g[c].attributesText)
       IN  g' = [g EXCEPT ![c].pc = "files",
                          ![c].attributesText = NoAttributesResp,
                          ![c].lfsFilter = r.filter,
                          ![c].err = r.err,
                          ![c].files = Files(g[c].added, g[c].modified)]
    /\ UNCHANGED <<Commits, debug, ci, calls, posted, sz, cm, at, group, requests>>

\* one iteration of `for _, file := range files`
ClassifyFile(c) ==
    /\ g[c].pc = "files"
    /\ g[c].fi < Len(g[c].files)
    /\ LET file == g[c].files[g[c].fi + 1]
       IN  \E r \in {CheckFile(g[c].config, g[c].lfsFilter, file, size, cresp) :
                        size \in FileSizeResults[file], cresp \in ContentResponses} :
                  /\ g' = [g EXCEPT
                         ![c].fi = @ + 1,
                         ![c].last = [valid |-> TRUE, size |-> r.size, err |-> r.err,
                                      validated |-> r.validated, verr |-> r.verr,
                                      fetched |-> r.fetched, resp |-> r.resp,
                                      invalid |-> r.invalid, candidate |-> r.candidate],
                         ![c].lfsInvalidPointers =
                             IF r.invalid THEN Append(@, file) ELSE @,
                         ![c].lfsCandidates =
                             IF r.candidate THEN Append(@, file) ELSE @]
                  /\ calls' = [calls EXCEPT
                         ![c].listing = @ + 1,
                         ![c].content = IF r.fetched THEN @ + 1 ELSE @]
    /\ UNCHANGED <<Commits, debug, ci, posted, sz, cm, at, group, requests>>

\* variant: the loop is also left after an iteration whose getFileSize failed
LoopDoneOrFailed(c) ==
    /\ g[c].pc = "files"
    /\ \/ g[c].fi = Len(g[c].files)
       \/ g[c].last.valid /\ g[c].last.err # Nil

\* `for _, file := range files` has gone through all of files
LoopDone(c) == g[c].pc = "files" /\ g[c].fi = Len(g[c].files)

\* variant: a comment needs findings of both kinds
HasFindingsOfBothKinds(c) ==
    Len(g[c].lfsInvalidPointers) > 0 /\ Len(g[c].lfsCandidates) > 0

\* `if len(lfsInvalidPointers) > 0 || len(lfsCandidates) > 0`
HasFindings(c) == Len(g[c].lfsInvalidPointers) > 0 \/ Len(g[c].lfsCandidates) > 0

\* the loop is over and both lists are empty: the goroutine returns
NothingToReport(c) ==
    /\ LoopDone(c)
    /\ ~HasFindings(c)
    /\ g' = [g EXCEPT ![c].pc = "done", ![c].last = NoLast]
    /\ UNCHANGED <<Commits, debug, ci, calls, posted, sz, cm, at, group, requests>>

\* WATCHDOG_DEBUG is set: the findings are logged only
LogFindings(c) ==
    /\ LoopDone(c)
    /\ HasFindings(c)
    /\ debug \in {"unread", "set"}
    /\ debug' = "set"
    /\ g' = [g EXCEPT ![c].pc = "done", ![c].last = NoLast]
    /\ UNCHANGED <<Commits, ci, calls, posted, sz, cm, at, group, requests>>

\* `comment, err := watchdog.createComment(...)`
CreateComment(c) ==
    /\ LoopDone(c)
    /\ HasFindings(c)
    /\ debug \in {"unread", "empty"}
    /\ debug' = "empty"
    /\ g' = [g EXCEPT
             ![c].pc = "post",
             ![c].last = NoLast,
             ![c].comment = createComment(g[c].lfsInvalidPointers, g[c].lfsCandidates,
                                          g[c].config.HelpContact,
                                          g[c].config.LFSSizeThreshold)]
    /\ UNCHANGED <<Commits, ci, calls, posted, sz, cm, at, group, requests>>

\* `err = watchdog.postComment(sha, &comment)`: the API accepts it or fails
PostComment(c) ==
    /\ g[c].pc = "post"
    /\ \E ok \in BOOLEAN :
          posted' = [posted EXCEPT ![c] = IF ok THEN Append(@, g[c].comment) ELSE @]
    /\ calls' = [calls EXCEPT ![c].comment = @ + 1]
    /\ g' = [g EXCEPT ![c].pc = "done"]
    /\ UNCHANGED <<Commits, debug, ci, sz, cm, at, group, requests>>

\* a step of the goroutine of commit c
GoroutineStep(c) ==
    \/ FetchConfig(c)
    \/ GetWatchDogConfig(c)
    \/ FetchAttributes(c)
    \/ GetAttributeFilter(c)
    \/ ClassifyFile(c)
    \/ NothingToReport(c)
    \/ LogFindings(c)
    \/ CreateComment(c)
    \/ PostComment(c)

Next ==
    \/ SkipCommit
    \/ StartCommit
    \/ \E c \in DOMAIN Commits : FetchConfig(c)
    \/ \E c \in DOMAIN Commits : GetWatchDogConfig(c)
    \/ \E c \in DOMAIN Commits : FetchAttributes(c)
    \/ \E c \in DOMAIN Commits : GetAttributeFilter(c)
    \/ \E c \in DOMAIN Commits : ClassifyFile(c)
    \/ \E c \in DOMAIN Commits : NothingToReport(c)
    \/ \E c \in DOMAIN Commits : LogFindings(c)
    \/ \E c \in DOMAIN Commits : CreateComment(c)
    \/ \E c \in DOMAIN Commits : PostComment(c)

Spec == Init /\ [][Next]_vars

\* --------------------------------------- a push with two distinct commits
Commit(distinct, added, modified, removed) ==
    [Distinct |-> distinct, Added |-> added, Modified |-> modified, Removed |-> removed]

\* pushes whose goroutines run side by side: a distinct commit, a commit
\* pushed before and a second distinct commit; two distinct commits that
\* name the same file
ConcurrentPushes ==
    {<<Commit(TRUE, <<ImgPsd>>, << >>, << >>),
       Commit(FALSE, <<DataXml>>, << >>, << >>),
       Commit(TRUE, << >>, <<MainGo>>, <<DataXml>>)>>,
     <<Commit(TRUE, <<MainGo>>, << >>, << >>),
       Commit(TRUE, << >>, <<MainGo>>, << >>),
       Commit(FALSE, << >>, << >>, <<MainGo>>)>>}

InitConcurrent ==
    /\ Commits \in ConcurrentPushes
    /\ debug = "unread"
    /\ ci = 1
    /\ g = [c \in DOMAIN Commits |-> Idle]
    /\ calls = [c \in DOMAIN Commits |-> NoCalls]
    /\ posted = [c \in DOMAIN Commits |-> << >>]
    /\ sz = SzIdle
    /\ cm = CmIdle
    /\ at = AtIdle
    /\ group = New
    /\ requests = NoRequests

SpecConcurrent == InitConcurrent /\ [][Next]_vars

\* ------------------------------------------------- getFileSize on its own
InitSize ==
    /\ Commits = << >>
    /\ debug = "unread"
    /\ ci = 1
    /\ g = << >>
    /\ calls = << >>
    /\ posted = << >>
    /\ sz \in UNION {{[SzIdle EXCEPT !.pc = "call", !.file = f, !.resp = r] :
                        r \in DirResponses(f)} : f \in Paths}
    /\ cm = CmIdle
    /\ at = AtIdle
    /\ group = New
    /\ requests = NoRequests

\* `size, err := watchdog.getFileSize(sha, file)`
GetFileSizeCall ==
    /\ sz.pc = "call"
    /\ sz' = [sz EXCEPT !.pc = "return", !.result = getFileSize(sz.resp, sz.file)]
    /\ UNCHANGED <<Commits, debug, ci, g, calls, posted, cm, at, group, requests>>

NextSize == GetFileSizeCall

SpecSize == InitSize /\ [][NextSize]_vars

\* ----------------------------------------------- createComment on its own
\* the thresholds from 0 to MaxSmallThreshold are all tried
MaxSmallThreshold == 2050

\* values of lfsSizeThreshold in .github/watchdog.yml
Thresholds ==
    (0..MaxSmallThreshold)
    \cup {-1025, -1, 511999, 512000, 512001, 1048575, 1048576, 20000000}

InitComment ==
    /\ Commits = << >>
    /\ debug = "unread"
    /\ ci = 1
    /\ g = << >>
    /\ calls = << >>
    /\ posted = << >>
    /\ sz = SzIdle
    /\ cm \in {[CmIdle EXCEPT !.pc = "call", !.lfsInvalidPointer = i,
                               !.lfsCandidates = k, !.helpContact = DefaultHelpContact,
                               !.sizeThreshold = t] :
                t \in Thresholds, i \in {<< >>, <<ImgPsd>>}, k \in {<< >>, <<MainGo>>}}
    /\ at = AtIdle
    /\ group = New
    /\ requests = NoRequests

\* `comment, err := watchdog.createComment(lfsInvalidPointers, lfsCandidates,
\* config.HelpContact, config.LFSSizeThreshold)`
CreateCommentCall ==
    /\ cm.pc = "call"
    /\ cm' = [cm EXCEPT !.pc = "return",
                        !.comment = createComment(cm.lfsInvalidPointer, cm.lfsCandidates,
                                                  cm.helpContact, cm.sizeThreshold)]
    /\ UNCHANGED <<Commits, debug, ci, g, calls, posted, sz, at, group, requests>>

NextComment == CreateCommentCall

SpecComment == InitComment /\ [][NextComment]_vars

\* ------------------------------------- attributes.GetAttributePaths on its own
\* The text of .gitattributes is a sequence of symbols: a character of a
\* word ("p"), "#", a space, a carriage return, a line feed, and the ten
\* characters filter=lfs written as one symbol.
CR == "\r"
LF == "\n"
FilterLFS == "filter=lfs"
Symbols == {"p", "#", " ", CR, LF, FilterLFS}

\* unicode.IsSpace, on the symbols of a line
IsSpace(ch) == ch \in {" ", CR, LF}

\* symbols of a text
MaxText == 6

AttributesTextsOfSymbols == UNION {[1..n -> Symbols] : n \in 0..MaxText}

\* bytes.IndexByte(data, '\n'): 0 stands for -1
IndexLF(data) ==
    IF \E i \in DOMAIN data : data[i] = LF
    THEN CHOOSE i \in DOMAIN data : data[i] = LF /\ \A j \in 1..(i - 1) : data[j] # LF
    ELSE 0

\* lineEndingSplitter.dropCR
dropCR(data) ==
    IF Len(data) > 0 /\ data[Len(data)] = CR
    THEN SubSeq(data, 1, Len(data) - 1)
    ELSE data

\* the tokens bufio.Scanner gets from lineEndingSplitter.ScanLines, with
\* all of the text in data and atEOF true
RECURSIVE ScanLines(_)
ScanLines(data) ==
    IF Len(data) = 0 THEN << >>
    ELSE LET i == IndexLF(data)
         IN  IF i > 0
             THEN <<dropCR(SubSeq(data, 1, i - 1))>>
                  \o ScanLines(SubSeq(data, i + 1, Len(data)))
             ELSE <<data>>

\* strings.TrimSpace
RECURSIVE TrimLeft(_)
TrimLeft(line) ==
    IF line # << >> /\ IsSpace(Head(line)) THEN TrimLeft(Tail(line)) ELSE line

RECURSIVE TrimRight(_)
TrimRight(line) ==
    IF line # << >> /\ IsSpace(line[Len(line)])
    THEN TrimRight(SubSeq(line, 1, Len(line) - 1))
    ELSE line

TrimSpace(line) == TrimRight(TrimLeft(line))

\* strings.HasPrefix(line, "#")
HasPrefixHash(line) == line # << >> /\ Head(line) = "#"

\* strings.Contains(line, "filter=lfs")
Contains(line, symbol) == \E i \in DOMAIN line : line[i] = symbol

\* strings.Fields(line)[0], for a line that begins with a symbol that is
\* not a space
RECURSIVE FirstField(_)
FirstField(line) ==
    IF line = << >> \/ IsSpace(Head(line)) THEN << >>
    ELSE <<Head(line)>> \o FirstField(Tail(line))

\* the loop of GetAttributePaths over the scanned lines
RECURSIVE CollectPaths(_)
CollectPaths(lines) ==
    IF lines = << >> THEN << >>
    ELSE LET line == TrimSpace(Head(lines))
         IN  IF HasPrefixHash(line) THEN CollectPaths(Tail(lines))
             ELSE IF Contains(line, FilterLFS)
             THEN <<FirstField(line)>> \o CollectPaths(Tail(lines))
             ELSE CollectPaths(Tail(lines))

\* paths, as GetAttributePaths has it when the scan is over
AttributePaths(attributesText) == CollectPaths(ScanLines(attributesText))

InitAttributes ==
    /\ Commits = << >>
    /\ debug = "unread"
    /\ ci = 1
    /\ g = << >>
    /\ calls = << >>
    /\ posted = << >>
    /\ sz = SzIdle
    /\ cm = CmIdle
    /\ at \in {[AtIdle EXCEPT !.pc = "call", !.attributesText = t] :
                t \in AttributesTextsOfSymbols}
    /\ group = New
    /\ requests = NoRequests

\* `attributes.GetAttributePaths(attributesText)`
GetAttributePathsCall ==
    /\ at.pc = "call"
    /\ at' = [at EXCEPT !.pc = "return", !.paths = AttributePaths(at.attributesText)]
    /\ UNCHANGED <<Commits, debug, ci, g, calls, posted, sz, cm, group, requests>>

NextAttributes == GetAttributePathsCall

SpecAttributes == InitAttributes /\ [][NextAttributes]_vars

\* --------------------------------------------- GatekeeperGroup.GetWatchdog
InitClientGroup ==
    /\ Commits = << >>
    /\ debug = "unread"
    /\ ci = 1
    /\ g = << >>
    /\ calls = << >>
    /\ posted = << >>
    /\ sz = SzIdle
    /\ cm = CmIdle
    /\ at = AtIdle
    /\ group = New
    /\ requests = NoRequests

\* the handler of a push event calls
\* `clientGroup.GetWatchdog(e.Installation.GetID())`
HandlePushEvent(r) ==
    /\ requests[r].pc = "idle"
    /\ \E id \in InstallationIDs :
          requests' = [requests EXCEPT ![r].pc = "rlock", ![r].installationID = id]
    /\ UNCHANGED <<Commits, debug, ci, g, calls, posted, sz, cm, at, group>>

\* `group.RLock()`: waits while a writer holds the lock
RLock(r) ==
    /\ requests[r].pc = "rlock"
    /\ ~group.writer
    /\ group' = [group EXCEPT !.readers = @ + 1]
    /\ requests' = [requests EXCEPT ![r].pc = "lookup"]
    /\ UNCHANGED <<Commits, debug, ci, g, calls, posted, sz, cm, at>>

\* `gatekeeper, retrieved := group.clients[installationID]`
Lookup(r) ==
    /\ requests[r].pc = "lookup"
    /\ LET found == group.clients[requests[r].installationID]
       IN  requests' = [requests EXCEPT ![r].pc = "runlock",
                                        ![r].gatekeeper = found,
                                        ![r].retrieved = (found # NoWatchDog)]
    /\ UNCHANGED <<Commits, debug, ci, g, calls, posted, sz, cm, at, group>>

\* `group.RUnlock()`, then `if retrieved { return gatekeeper, nil }`
RUnlock(r) ==
    /\ requests[r].pc = "runlock"
    /\ group' = [group EXCEPT !.readers = @ - 1]
    /\ requests' = [requests EXCEPT
                       ![r].pc = IF requests[r].retrieved THEN "return" ELSE "build"]
    /\ UNCHANGED <<Commits, debug, ci, g, calls, posted, sz, cm, at>>

\* the else branch up to `gatekeeper := watchdog.New(client)`:
\* ghinstallation.NewKeyFromFile or github.NewEnterpriseClient fails and the
\* call returns nil and the error, or the WatchDog is built
Build(r) ==
    /\ requests[r].pc = "build"
    /\ \E ok \in BOOLEAN :
          requests' = [requests EXCEPT
                          ![r].pc = IF ok THEN "lock" ELSE "return",
                          ![r].gatekeeper = IF ok THEN WatchDogOf(r) ELSE NoWatchDog,
                          ![r].built = ok,
                          ![r].err = ~ok]
    /\ UNCHANGED <<Commits, debug, ci, g, calls, posted, sz, cm, at, group>>

\* `group.Lock()`: waits for the readers and the writer to leave
Lock(r) ==
    /\ requests[r].pc = "lock"
    /\ ~group.writer
    /\ group.readers = 0
    /\ group' = [group EXCEPT !.writer = TRUE]
    /\ requests' = [requests EXCEPT ![r].pc = "store"]
    /\ UNCHANGED <<Commits, debug, ci, g, calls, posted, sz, cm, at>>

\* `group.clients[installationID] = gatekeeper`
Store(r) ==
    /\ requests[r].pc = "store"
    /\ group' = [group EXCEPT
                    !.clients[requests[r].installationID] = requests[r].gatekeeper]
    /\ requests' = [requests EXCEPT ![r].pc = "unlock"]
    /\ UNCHANGED <<Commits, debug, ci, g, calls, posted, sz, cm, at>>

\* `group.Unlock()`, then `return gatekeeper, nil`
Unlock(r) ==
    /\ requests[r].pc = "unlock"
    /\ group' = [group EXCEPT !.writer = FALSE]
    /\ requests' = [requests EXCEPT ![r].pc = "return"]
    /\ UNCHANGED <<Commits, debug, ci, g, calls, posted, sz, cm, at>>

NextClientGroup ==
    \/ \E r \in Requests : HandlePushEvent(r)
    \/ \E r \in Requests : RLock(r)
    \/ \E r \in Requests : Lookup(r)
    \/ \E r \in Requests : RUnlock(r)
    \/ \E r \in Requests : Build(r)
    \/ \E r \in Requests : Lock(r)
    \/ \E r \in Requests : Store(r)
    \/ \E r \in Requests : Unlock(r)

SpecClientGroup == InitClientGroup /\ [][NextClientGroup]_vars

\* ================================================================ properties
\* Goroutine c runs one iteration of its loop in this step.
Iterates(c) ==
    /\ g[c].pc = "files"
    /\ g'[c].pc = "files"
    /\ g'[c].fi = g[c].fi + 1

\* the file of that iteration, and what the iteration did with the lists
IterFile(c) == g[c].files[g[c].fi + 1]
AppendsCandidate(c) == g'[c].lfsCandidates = Append(g[c].lfsCandidates, IterFile(c))
KeepsCandidates(c) == g'[c].lfsCandidates = g[c].lfsCandidates
AppendsInvalid(c) == g'[c].lfsInvalidPointers = Append(g[c].lfsInvalidPointers, IterFile(c))
KeepsInvalid(c) == g'[c].lfsInvalidPointers = g[c].lfsInvalidPointers

\* the iteration resolved the size and took the suggestion branch
Suggests(c) ==
    /\ Iterates(c)
    /\ g'[c].last.err = Nil
    /\ ~IsLFSDeclared(g[c].lfsFilter, IterFile(c))
    /\ g[c].config.LFSSuggestionsEnabled

\* the iteration resolved the size and called validateLFSPointer
Validates(c) ==
    /\ Iterates(c)
    /\ g'[c].last.err = Nil
    /\ IsLFSDeclared(g[c].lfsFilter, IterFile(c))

\* the file of the iteration that goroutine c has just finished
LastFile(c) == g[c].files[g[c].fi]
JustClassified(c) == g[c].pc = "files" /\ g[c].last.valid /\ g[c].last.err = Nil
IsLast(list, file) == Len(list) > 0 /\ list[Len(list)] = file

\* C1: a file that is not LFS-declared and not exempt, with suggestions
\* enabled and its size resolved, is appended to lfsCandidates if and only
\* if its size is strictly greater than LFSSizeThreshold.
C1_CandidateIffAboveThreshold ==
    [][\A c \in DOMAIN Commits :
          (Suggests(c) /\ ~Allows(g[c].config.LFSExemptionsFilter, IterFile(c)))
          => IF g'[c].last.size > g[c].config.LFSSizeThreshold
             THEN AppendsCandidate(c) /\ KeepsInvalid(c)
             ELSE KeepsCandidates(c) /\ KeepsInvalid(c)]_vars

\* C1 witness: with threshold 512000, main.go of size 600000 has just been
\* appended to lfsCandidates.
C1_Witness ==
    \E c \in DOMAIN Commits :
        /\ JustClassified(c)
        /\ g[c].config.LFSSizeThreshold = 512000
        /\ g[c].config.LFSSuggestionsEnabled
        /\ ~IsLFSDeclared(g[c].lfsFilter, LastFile(c))
        /\ ~Allows(g[c].config.LFSExemptionsFilter, LastFile(c))
        /\ g[c].last.size = 600000
        /\ IsLast(g[c].lfsCandidates, LastFile(c))

\* C2: when the config names no exemption pattern (the defaults after a
\* failed load, or a loaded watchdog.yml without lfsSizeExemptions), a
\* file that is not LFS-declared and whose size exceeds LFSSizeThreshold is
\* appended to lfsCandidates.
C2_NoPatternNoExemption ==
    [][\A c \in DOMAIN Commits :
          (/\ Suggests(c)
           /\ Len(g[c].config.LFSSizeExemptions) = 0
           /\ g'[c].last.size > g[c].config.LFSSizeThreshold)
          => AppendsCandidate(c)]_vars

\* C3: a file that is not LFS-declared and is matched by the exemption
\* filter is appended to lfsCandidates if and only if its size is strictly
\* greater than LFSSizeExemptionsThreshold, whatever LFSSizeThreshold is.
C3_ExemptIffAboveExemptionThreshold ==
    [][\A c \in DOMAIN Commits :
          (Suggests(c) /\ Allows(g[c].config.LFSExemptionsFilter, IterFile(c)))
          => IF g'[c].last.size > g[c].config.LFSSizeExemptionsThreshold
             THEN AppendsCandidate(c) /\ KeepsInvalid(c)
             ELSE KeepsCandidates(c) /\ KeepsInvalid(c)]_vars

\* C3 witness: with the exemption *.xml at 20000000, data.xml of 25000000
\* bytes has just been appended to lfsCandidates.
C3_Witness ==
    \E c \in DOMAIN Commits :
        /\ JustClassified(c)
        /\ g[c].config.LFSSizeExemptions = ReadmeYaml.lfsSizeExemptions
        /\ g[c].config.LFSSizeExemptionsThreshold = 20000000
        /\ g[c].config.LFSSuggestionsEnabled
        /\ LastFile(c) = DataXml
        /\ ~IsLFSDeclared(g[c].lfsFilter, LastFile(c))
        /\ g[c].last.size = 25000000
        /\ IsLast(g[c].lfsCandidates, LastFile(c))

\* C4: validateLFSPointer called with a size below 20 or above 150 returns
\* errLFSPointer and fetches no content; with a size from 20 to 150, both
\* included, it fetches the content.
C4_SizeWindowBeforeFetch ==
    [][\A c \in DOMAIN Commits :
          Validates(c)
          => IF g'[c].last.size < 20 \/ g'[c].last.size > 150
             THEN /\ g'[c].last.verr = errLFSPointer
                  /\ ~g'[c].last.fetched
                  /\ calls'[c].content = calls[c].content
             ELSE /\ g'[c].last.fetched
                  /\ calls'[c].content = calls[c].content + 1]_vars

\* C4 witness: a declared file of 151 bytes has just been rejected without
\* a content fetch.
C4_Witness ==
    \E c \in DOMAIN Commits :
        /\ JustClassified(c)
        /\ g[c].last.validated
        /\ g[c].last.size = 151
        /\ g[c].last.verr = errLFSPointer
        /\ calls[c].content = 0

\* C5: for a size from 20 to 150 and a content that was fetched,
\* validateLFSPointer returns nil if the content has version, oid and size
\* and errLFSPointer if it has not; Check appends the file to
\* lfsInvalidPointers exactly when the result is errLFSPointer.
C5_ParseDecides ==
    [][\A c \in DOMAIN Commits :
          Validates(c)
          => /\ (g'[c].last.fetched /\ g'[c].last.resp.err = Nil)
                => IF {"version", "oid", "size"} \subseteq g'[c].last.resp.content.keys
                   THEN g'[c].last.verr = Nil
                   ELSE g'[c].last.verr = errLFSPointer
             /\ IF g'[c].last.verr = errLFSPointer
                THEN AppendsInvalid(c)
                ELSE KeepsInvalid(c)]_vars

\* C5 witness: a declared file of 150 bytes whose content lacks the size
\* line has just been appended to lfsInvalidPointers.
C5_Witness ==
    \E c \in DOMAIN Commits :
        /\ JustClassified(c)
        /\ g[c].last.validated
        /\ g[c].last.size = 150
        /\ g[c].last.fetched
        /\ g[c].last.resp.err = Nil
        /\ g[c].last.resp.content.keys = {"version", "oid"}
        /\ IsLast(g[c].lfsInvalidPointers, LastFile(c))

\* C6: when the content fetch of validateLFSPointer fails, the error
\* returned is the fetch error, which is not errLFSPointer, and Check
\* appends the file to neither list.
C6_FetchErrorIsNotInvalidPointer ==
    [][\A c \in DOMAIN Commits :
          (Validates(c) /\ g'[c].last.fetched /\ g'[c].last.resp.err # Nil)
          => /\ g'[c].last.verr = g'[c].last.resp.err
             /\ g'[c].last.verr # errLFSPointer
             /\ KeepsInvalid(c)
             /\ KeepsCandidates(c)]_vars

\* C6 witness: the content of a declared file of 20 bytes could not be
\* fetched, and both lists are empty.
C6_Witness ==
    \E c \in DOMAIN Commits :
        /\ JustClassified(c)
        /\ g[c].last.validated
        /\ g[c].last.size = 20
        /\ g[c].last.fetched
        /\ g[c].last.verr = errGetFileContent
        /\ g[c].lfsInvalidPointers = << >>
        /\ g[c].lfsCandidates = << >>

\* getFileSize has returned for a listing; the entries shown for the file
Returned == sz.pc = "return" /\ sz.resp.kind = "dir"
Hits == {i \in DOMAIN sz.resp.shown : sz.resp.shown[i].path = sz.file}
Listed == Len(sz.resp.shown) + sz.resp.more

\* C7: when the listing has no entry for the file, getFileSize fails with
\* errGetContentsUpperLimit if the listing has 1000 entries or more, and
\* with the missing-file error if it has fewer.
C7_TruncatedOrMissing ==
    (Returned /\ Hits = {})
    => /\ sz.result.size = -1
       /\ IF Listed >= 1000
          THEN sz.result.err = errGetContentsUpperLimit
          ELSE sz.result.err = errMissing

\* C7 witness: a listing of exactly 1000 entries without the file gave
\* errGetContentsUpperLimit.
C7_Witness ==
    /\ Returned
    /\ Hits = {}
    /\ Listed = 1000
    /\ sz.result.err = errGetContentsUpperLimit

\* C8: when the listing has an entry for the file that is not of type
\* file, getFileSize fails with the wrong-kind error and returns no size,
\* at the 1000-entry limit or below it; a size is returned without error
\* only from an entry of type file.
C8_OnlyFilesHaveSizes ==
    Returned
    => /\ (\E i \in Hits : sz.resp.shown[i].type # "file")
          => (sz.result.err = errWrongKind /\ sz.result.size = -1)
       /\ sz.result.err = Nil
          => \E i \in Hits : /\ sz.resp.shown[i].type = "file"
                             /\ sz.resp.shown[i].size = sz.result.size

\* C8 witness: a symlink at the path of the file, in a listing at the
\* limit, gave the wrong-kind error.
C8_Witness ==
    /\ Returned
    /\ \E i \in Hits : sz.resp.shown[i].type = "symlink"
    /\ Listed >= 1000
    /\ sz.result.err = errWrongKind
    /\ sz.result.size = -1

\* C9: a listing of 1000 entries or more is still searched: an entry of
\* type file for the file gives its size and no error.
C9_TruncatedListingSearched ==
    (Returned /\ Listed >= 1000)
    => \A i \in Hits :
          sz.resp.shown[i].type = "file"
          => sz.result = [size |-> sz.resp.shown[i].size, err |-> Nil]

\* C9 witness: the file was found in a listing of more than 1000 entries.
C9_Witness ==
    /\ Returned
    /\ Listed > 1000
    /\ \E i \in Hits : /\ sz.resp.shown[i].type = "file"
                       /\ sz.resp.shown[i].size = 600000
    /\ sz.result = [size |-> 600000, err |-> Nil]

\* C10: for a commit that is not distinct, Check starts no goroutine and
\* makes no API call: no config load, no .gitattributes load, no listing,
\* no content fetch and no comment.
C10_NonDistinctUntouched ==
    \A c \in DOMAIN Commits :
        ~Commits[c].Distinct
        => /\ g[c] = Idle
           /\ calls[c] = NoCalls
           /\ posted[c] = << >>

\* C10 witness: Check has walked past a commit that is not distinct and
\* names an added and a modified file.
C10_Witness ==
    \E c \in DOMAIN Commits :
        /\ ~Commits[c].Distinct
        /\ Commits[c].Added # << >>
        /\ Commits[c].Modified # << >>
        /\ ci > Len(Commits)
        /\ calls[c] = NoCalls

\* the lines of a .gitattributes text that declare an LFS path
LFSRules(text) ==
    {i \in DOMAIN text :
        text[i].kind = "rule" /\ \E j \in DOMAIN text[i].attrs : text[i].attrs[j] = "filter=lfs"}

\* getAttributeFilter returns to Check in this step
FilterReturns(c) == g[c].pc = "filter_parse" /\ g'[c].pc = "files"

\* C11: when .gitattributes cannot be fetched or holds no LFS pattern, the
\* filter Check gets is nil; with a nil filter no iteration of the loop
\* calls validateLFSPointer or fetches a content, and lfsInvalidPointers
\* stays empty.
C11_NoPatternsNoValidation ==
    [][\A c \in DOMAIN Commits :
          /\ (FilterReturns(c)
               /\ (g[c].attributesText.err \/ LFSRules(g[c].attributesText.text) = {}))
             => g'[c].lfsFilter = NilFilter
          /\ (Iterates(c) /\ g[c].lfsFilter.nil)
             => /\ ~g'[c].last.validated
                /\ calls'[c].content = calls[c].content
                /\ g'[c].lfsInvalidPointers = << >>]_vars

\* C11 witness: .gitattributes was fetched and declares no LFS path, and
\* assets/img.psd of 600000 bytes has gone to the suggestion branch.
C11_Witness ==
    \E c \in DOMAIN Commits :
        /\ JustClassified(c)
        /\ g[c].err = Nil
        /\ g[c].lfsFilter = NilFilter
        /\ LastFile(c) = ImgPsd
        /\ g[c].last.size = 600000
        /\ ~g[c].last.validated
        /\ calls[c].content = 0
        /\ IsLast(g[c].lfsCandidates, ImgPsd)
        /\ g[c].lfsInvalidPointers = << >>

\* the goroutine has built its list of files
HasFiles(c) == g[c].pc \in {"files", "post", "done"}

\* sub is seq with some of its elements left out
RECURSIVE IsSubsequence(_, _)
IsSubsequence(sub, seq) ==
    IF sub = << >> THEN TRUE
    ELSE IF seq = << >> THEN FALSE
    ELSE IF Head(sub) = Head(seq) THEN IsSubsequence(Tail(sub), Tail(seq))
    ELSE IsSubsequence(sub, Tail(seq))

\* C12: the files a goroutine classifies are the added files followed by
\* the modified files of its commit, repeated paths kept and removed files
\* left out; the list never changes; an iteration leaves each result list
\* as it is or appends the file of the iteration, so that both lists are
\* subsequences of the files classified so far.
C12_FilesInOrder ==
    [][\A c \in DOMAIN Commits :
          /\ FilterReturns(c) => g'[c].files = Commits[c].Added \o Commits[c].Modified
          /\ HasFiles(c)
             => /\ g'[c].files = g[c].files
                /\ IsSubsequence(g[c].lfsInvalidPointers, SubSeq(g[c].files, 1, g[c].fi))
                /\ IsSubsequence(g[c].lfsCandidates, SubSeq(g[c].files, 1, g[c].fi))
          /\ (HasFiles(c) /\ ~Iterates(c)) => /\ KeepsInvalid(c)
                                             /\ KeepsCandidates(c)
                                             /\ g'[c].fi = g[c].fi
          /\ Iterates(c) => /\ AppendsInvalid(c) \/ KeepsInvalid(c)
                            /\ AppendsCandidate(c) \/ KeepsCandidates(c)]_vars

\* C12 witness: a commit adds and modifies main.go; main.go was classified
\* twice and is twice in lfsCandidates.
C12_Witness ==
    \E c \in DOMAIN Commits :
        /\ Commits[c].Added = <<MainGo>>
        /\ Commits[c].Modified = <<MainGo>>
        /\ g[c].files = <<MainGo, MainGo>>
        /\ g[c].fi = 2
        /\ g[c].lfsCandidates = <<MainGo, MainGo>>

\* the threshold the suggestion branch holds a file to
ThresholdFor(config, file) ==
    IF Allows(config.LFSExemptionsFilter, file)
    THEN config.LFSSizeExemptionsThreshold
    ELSE config.LFSSizeThreshold

\* what an iteration that resolved the size does with the lists, given the
\* config and the filter of the goroutine
ClassifiedOnItsOwn(c) ==
    IF IsLFSDeclared(g[c].lfsFilter, IterFile(c))
    THEN /\ KeepsCandidates(c)
         /\ IF g'[c].last.verr = errLFSPointer THEN AppendsInvalid(c) ELSE KeepsInvalid(c)
    ELSE /\ KeepsInvalid(c)
         /\ IF /\ g[c].config.LFSSuggestionsEnabled
               /\ g'[c].last.size > ThresholdFor(g[c].config, IterFile(c))
            THEN AppendsCandidate(c)
            ELSE KeepsCandidates(c)

\* C13: an iteration whose getFileSize fails appends its file to neither
\* list, calls no validateLFSPointer even for a declared file, and the
\* loop goes on: the goroutine leaves the loop only after the last file,
\* and the iteration that follows a failed one classifies its file by its
\* own size, the config and the filter alone.
C13_SizeErrorSkipsFileOnly ==
    [][\A c \in DOMAIN Commits :
          /\ (Iterates(c) /\ g'[c].last.err # Nil)
             => /\ KeepsInvalid(c)
                /\ KeepsCandidates(c)
                /\ ~g'[c].last.validated
                /\ calls'[c].content = calls[c].content
                /\ g'[c].config = g[c].config
                /\ g'[c].lfsFilter = g[c].lfsFilter
          /\ (g[c].pc = "files" /\ g'[c] # g[c])
             => IF g[c].fi < Len(g[c].files)
                THEN Iterates(c)
                ELSE g'[c].pc # "files"
          /\ (Iterates(c) /\ g[c].last.valid /\ g[c].last.err # Nil
               /\ g'[c].last.err = Nil)
             => ClassifiedOnItsOwn(c)]_vars

\* C13 witness: the size of assets/img.psd, a declared file, could not be
\* resolved: nothing was validated or listed for it, and main.go after it
\* was classified and appended to lfsCandidates.
C13_Witness ==
    \E c \in DOMAIN Commits :
        /\ g[c].pc = "files"
        /\ g[c].files = <<ImgPsd, MainGo>>
        /\ IsLFSDeclared(g[c].lfsFilter, ImgPsd)
        /\ g[c].fi = 2
        /\ calls[c].listing = 2
        /\ calls[c].content = 0
        /\ g[c].lfsInvalidPointers = << >>
        /\ g[c].last.err = Nil
        /\ g[c].lfsCandidates = <<MainGo>>

\* the goroutine of commit c has returned, with or without findings
Done(c) == g[c].pc = "done"
Found(c) == g[c].lfsInvalidPointers # << >> \/ g[c].lfsCandidates # << >>

\* the comment of commit c carries both lists
CarriesBothLists(c) ==
    /\ g[c].comment.LFSInvalidPointer = g[c].lfsInvalidPointers
    /\ g[c].comment.LFSCandidates = g[c].lfsCandidates

\* C14 as stated: a goroutine that has returned with both lists empty has
\* composed and posted nothing, and one that has returned with a list that
\* is not empty has called postComment exactly once, with a comment that
\* carries both lists.
C14_ReportedExactlyOnce ==
    \A c \in DOMAIN Commits :
        Done(c)
        => IF Found(c)
           THEN calls[c].comment = 1 /\ CarriesBothLists(c)
           ELSE calls[c].comment = 0 /\ posted[c] = << >> /\ g[c].comment = NoComment

\* C14 amended: postComment is called at most once for a commit and only
\* what it was called with is posted.  A goroutine that has returned with
\* both lists empty has composed and posted nothing.  One that has returned
\* with a list that is not empty has, when WATCHDOG_DEBUG is set, composed
\* and posted nothing, and has otherwise called postComment exactly once,
\* with a comment that carries both lists.
C14_ReportedOnceUnlessDebug ==
    \A c \in DOMAIN Commits :
        /\ calls[c].comment <= 1
        /\ posted[c] \in {<< >>, <<g[c].comment>>}
        /\ Len(posted[c]) <= calls[c].comment
        /\ g[c].pc \notin {"post", "done"} => calls[c].comment = 0
        /\ Done(c)
           => IF ~Found(c) \/ debug = "set"
              THEN calls[c].comment = 0 /\ posted[c] = << >> /\ g[c].comment = NoComment
              ELSE calls[c].comment = 1 /\ CarriesBothLists(c)

\* C14 witness: with WATCHDOG_DEBUG empty, one comment naming
\* assets/img.psd as an invalid pointer and main.go as a candidate was
\* posted.
C14_Witness ==
    \E c \in DOMAIN Commits :
        /\ Done(c)
        /\ debug = "empty"
        /\ g[c].lfsInvalidPointers = <<ImgPsd>>
        /\ g[c].lfsCandidates = <<MainGo>>
        /\ calls[c].comment = 1
        /\ posted[c] = <<g[c].comment>>
        /\ CarriesBothLists(c)

\* .github/watchdog.yml could not be fetched, is not YAML, or has a key
\* that watchdogConfig does not have
LoadFails(resp) == resp.err \/ resp.doc.malformed \/ resp.doc.unknownKey

\* getWatchDogConfig returns to Check in this step
ConfigReturns(c) == g[c].pc = "config_parse" /\ g'[c].pc = "filter"

\* C15: when the load of .github/watchdog.yml fails, getWatchDogConfig
\* returns an error together with the whole default config (contact
\* "@mlbright or @larsxschneider", suggestions enabled, 512000, 20000000, no
\* exemptions); the goroutine goes on to fetch .gitattributes and to the
\* loop, and the config stays what it is through the loop.
C15_DefaultsOnLoadFailure ==
    [][\A c \in DOMAIN Commits :
          /\ (ConfigReturns(c) /\ LoadFails(g[c].content))
             => /\ g'[c].err # Nil
                /\ g'[c].config.HelpContact = "@mlbright or @larsxschneider"
                /\ g'[c].config.LFSSuggestionsEnabled = TRUE
                /\ g'[c].config.LFSSizeThreshold = 512000
                /\ g'[c].config.LFSSizeExemptionsThreshold = 20000000
                /\ g'[c].config.LFSSizeExemptions = << >>
                /\ g'[c].config.LFSExemptionsFilter = NilFilter
          /\ (g[c].pc = "filter" /\ g'[c] # g[c]) => g'[c].pc = "filter_parse"
          /\ (g[c].pc = "filter_parse" /\ g'[c] # g[c]) => g'[c].pc = "files"
          /\ g[c].pc \in {"filter", "filter_parse", "files"}
             => g'[c].config = g[c].config]_vars

\* C15 witness: after a failed load, data.xml of 25000000 bytes has been
\* classified with the defaults and appended to lfsCandidates.
C15_Witness ==
    \E c \in DOMAIN Commits :
        /\ JustClassified(c)
        /\ g[c].config = defaultWatchDogConfig
        /\ LastFile(c) = DataXml
        /\ g[c].last.size = 25000000
        /\ IsLast(g[c].lfsCandidates, DataXml)

\* the keys a loaded .github/watchdog.yml leaves out
Omitted(c, key) == ~LoadFails(g[c].content) /\ key \notin DOMAIN g[c].content.doc.fields

\* C16: when .github/watchdog.yml loads and parses, the config that
\* getWatchDogConfig returns has, for every key the file leaves out, the
\* default: lfsSizeThreshold 512000, lfsSizeExemptionsThreshold 20000000,
\* lfsSuggestionsEnabled true, helpContact "@mlbright or @larsxschneider".
C16_OmittedKeysTakeDefaults ==
    [][\A c \in DOMAIN Commits :
          ConfigReturns(c)
          => /\ Omitted(c, "lfsSizeThreshold")
                => g'[c].config.LFSSizeThreshold = 512000
             /\ Omitted(c, "lfsSizeExemptionsThreshold")
                => g'[c].config.LFSSizeExemptionsThreshold = 20000000
             /\ Omitted(c, "lfsSuggestionsEnabled")
                => g'[c].config.LFSSuggestionsEnabled = TRUE
             /\ Omitted(c, "helpContact")
                => g'[c].config.HelpContact = "@mlbright or @larsxschneider"]_vars

\* C17: every fetch of .gitattributes made for a commit of the push names
\* the default branch of the repository as its ref.
C17_AttributesFromDefaultBranch ==
    \A c \in DOMAIN Commits :
        calls[c].attributes > 0 => calls[c].attributesRef = DefaultBranch

\* what belongs to the goroutine of commit c
Unit(c) == <<g[c], calls[c], posted[c]>>

\* the goroutine of commit c has been started and has not returned
Running(c) == g[c].pc \notin {"idle", "done"}

\* the arguments, the files and the findings of goroutine c are those of
\* commit c, and while it runs it can take its next step
OwnsItsInputs(c) ==
    /\ g[c].pc # "idle"
       => /\ g[c].sha = Sha(c)
          /\ g[c].added = Commits[c].Added
          /\ g[c].modified = Commits[c].Modified
    /\ HasFiles(c) => g[c].files = Commits[c].Added \o Commits[c].Modified
    /\ \A i \in DOMAIN g[c].lfsInvalidPointers :
          \E j \in 1..g[c].fi : g[c].files[j] = g[c].lfsInvalidPointers[i]
    /\ \A i \in DOMAIN g[c].lfsCandidates :
          \E j \in 1..g[c].fi : g[c].files[j] = g[c].lfsCandidates[i]
    /\ Running(c) => ENABLED GoroutineStep(c)

\* a step changes what belongs to one goroutine at most, and what that
\* goroutine finds, composes and posts follows from its own locals
StepsOnItsOwn(c) ==
    /\ Unit(c)' # Unit(c) => \A d \in DOMAIN Commits \ {c} : Unit(d)' = Unit(d)
    /\ (Iterates(c) /\ g'[c].last.err = Nil) => ClassifiedOnItsOwn(c)
    /\ (Iterates(c) /\ g'[c].last.err # Nil) => KeepsInvalid(c) /\ KeepsCandidates(c)
    /\ (g[c].pc = "files" /\ g'[c].pc = "post")
       => /\ CarriesBothLists(c)'
          /\ g'[c].comment.LFSHelpContact = g[c].config.HelpContact
    /\ posted'[c] # posted[c] => posted'[c] = <<g[c].comment>>

\* C18: with the goroutines of two distinct commits running side by side,
\* under every interleaving: each goroutine works on the sha and the files
\* of its own commit, every step changes the locals, calls and comments of
\* one commit only, each classification and each comment follows from the
\* goroutine's own config, filter, files and lists, and a goroutine that
\* has not returned can always take its next step, whatever has failed in
\* the other.
C18_UnitsIndependent ==
    /\ [](\A c \in DOMAIN Commits : OwnsItsInputs(c))
    /\ [][\A c \in DOMAIN Commits : StepsOnItsOwn(c)]_vars

\* C18 witness: the post of the comment for one distinct commit failed, the
\* other distinct commit, started after it, got its comment, and each
\* comment names the file of its own commit.
C18_Witness ==
    \E c, d \in DOMAIN Commits :
        /\ c < d
        /\ Done(c) /\ Done(d)
        /\ g[c].lfsInvalidPointers = <<ImgPsd>>
        /\ calls[c].comment = 1
        /\ posted[c] = << >>
        /\ g[d].lfsCandidates = <<MainGo>>
        /\ posted[d] = <<g[d].comment>>
        /\ g[d].comment.LFSCandidates = <<MainGo>>
        /\ g[d].comment.LFSInvalidPointer = << >>

\* C19: for every threshold t >= 0 handed to createComment, the value shown
\* in the comment is the largest k with k * 1024 <= t; 512000 is shown as
\* 500.
C19_KilobytesTruncated ==
    (cm.pc = "return" /\ cm.sizeThreshold >= 0)
    => /\ cm.comment.LFSSizeThresholdKB * 1024 <= cm.sizeThreshold
       /\ cm.sizeThreshold < (cm.comment.LFSSizeThresholdKB + 1) * 1024
       /\ cm.sizeThreshold = 512000 => cm.comment.LFSSizeThresholdKB = 500

\* C19 witness: a comment for the threshold 512000 shows 500, and names
\* main.go as a candidate.
C19_Witness ==
    /\ cm.pc = "return"
    /\ cm.sizeThreshold = 512000
    /\ cm.comment.LFSSizeThresholdKB = 500
    /\ cm.comment.LFSCandidates = <<MainGo>>

\* the result validateLFSPointer must give for the size and the content
\* the iteration saw
PointerIsInvalid(c) ==
    \/ g'[c].last.size < 20
    \/ g'[c].last.size > 150
    \/ /\ g'[c].last.resp.err = Nil
       /\ ~({"version", "oid", "size"} \subseteq g'[c].last.resp.content.keys)

\* C20: while the config of a goroutine has LFSSuggestionsEnabled false, its
\* lfsCandidates is empty and no iteration appends to it, whatever the
\* sizes and the exemptions; an iteration for a declared file validates
\* the pointer and appends to lfsInvalidPointers exactly when the pointer
\* is invalid, as it does with suggestions enabled.
C20_DisabledSuggestsNothing ==
    [][\A c \in DOMAIN Commits :
          /\ ~g[c].config.LFSSuggestionsEnabled
             => /\ g[c].lfsCandidates = << >>
                /\ Iterates(c) => g'[c].lfsCandidates = << >>
          /\ Validates(c)
             => /\ g'[c].last.validated
                /\ IF PointerIsInvalid(c) THEN AppendsInvalid(c) ELSE KeepsInvalid(c)]_vars

\* C20 witness: with suggestions disabled, assets/img.psd was appended to
\* lfsInvalidPointers and main.go of 25000000 bytes was appended to nothing.
C20_Witness ==
    \E c \in DOMAIN Commits :
        /\ JustClassified(c)
        /\ ~g[c].config.LFSSuggestionsEnabled
        /\ g[c].files = <<ImgPsd, MainGo>>
        /\ g[c].fi = 2
        /\ g[c].lfsInvalidPointers = <<ImgPsd>>
        /\ g[c].last.size = 25000000
        /\ g[c].lfsCandidates = << >>

\* the whitespace-separated fields of a line
RECURSIVE FieldsOf(_)
FieldsOf(line) ==
    LET rest == TrimLeft(line)
    IN  IF rest = << >> THEN << >>
        ELSE LET first == FirstField(rest)
             IN  <<first>> \o FieldsOf(SubSeq(rest, Len(first) + 1, Len(rest)))

\* the lines of a text whose lines end with LF or with CR LF
RECURSIVE LinesOf(_)
LinesOf(text) ==
    IF text = << >> THEN << >>
    ELSE LET i == IndexLF(text)
             line == IF i > 0 THEN SubSeq(text, 1, i - 1) ELSE text
             rest == IF i > 0 THEN SubSeq(text, i + 1, Len(text)) ELSE << >>
         IN  <<IF line # << >> /\ line[Len(line)] = CR
               THEN SubSeq(line, 1, Len(line) - 1) ELSE line>> \o LinesOf(rest)

\* the first field of every line that is not blank, is not a comment and
\* has filter=lfs among its fields
RECURSIVE FirstFieldsOfLFSLines(_)
FirstFieldsOfLFSLines(lines) ==
    IF lines = << >> THEN << >>
    ELSE LET fields == FieldsOf(Head(lines))
         IN  IF /\ fields # << >>
                /\ Head(fields[1]) # "#"
                /\ \E i \in DOMAIN fields : fields[i] = <<FilterLFS>>
             THEN <<fields[1]>> \o FirstFieldsOfLFSLines(Tail(lines))
             ELSE FirstFieldsOfLFSLines(Tail(lines))

\* the text with every LF turned into CR LF
RECURSIVE WithCRLF(_)
WithCRLF(text) ==
    IF text = << >> THEN << >>
    ELSE (IF Head(text) = LF THEN <<CR, LF>> ELSE <<Head(text)>>) \o WithCRLF(Tail(text))

GetAttributePathsReturned == at.pc = "return"

\* C21: the paths GetAttributePaths collects are, in line order, the first
\* fields of the lines that are not blank, are not # comments and have
\* filter=lfs among their fields, and nothing else; a text with LF line
\* endings and the same text with CR LF line endings give the same paths.
C21_FirstFieldsOfLFSLines ==
    GetAttributePathsReturned
    => /\ at.paths = FirstFieldsOfLFSLines(LinesOf(at.attributesText))
       /\ ~Contains(at.attributesText, CR)
          => AttributePaths(WithCRLF(at.attributesText)) = at.paths

\* ------------------------------------------------- goroutines that get to run
\* The Go scheduler runs every runnable goroutine, and every call of the
\* GitHub API returns: a goroutine that can take a step takes it.
units == 1..MaxCommits

FairGoroutine(c) == c \in DOMAIN Commits /\ GoroutineStep(c)

SpecFair == Spec /\ \A c \in units : WF_vars(FairGoroutine(c))

\* the goroutine of commit c has been started and has not returned
Started(c) == c \in DOMAIN Commits /\ Running(c)

\* the goroutine of commit c has returned, after the whole of its files
Finished(c) ==
    /\ c \in DOMAIN Commits
    /\ Done(c)
    /\ g[c].fi = Len(g[c].files)

\* the size handed to validateLFSPointer is in the window of a pointer
InPointerWindow(size) == size >= lfsPtrBlobMinSize /\ size <= lfsPtrBlobMaxSize

\* the calls goroutine c has made so far, against the files it has gone through
CallsPerFile(c) ==
    /\ HasFiles(c) => g[c].files = Commits[c].Added \o Commits[c].Modified
    /\ g[c].fi <= Len(g[c].files)
    /\ calls[c].listing = g[c].fi
    /\ calls[c].content <= g[c].fi
    /\ calls[c].config <= 1
    /\ calls[c].attributes <= 1
    /\ calls[c].comment <= 1
    /\ g[c].pc \in {"post", "done"} => g[c].fi = Len(g[c].files)

\* what a step of goroutine c does to the loop and to the calls
LoopStep(c) ==
    /\ g'[c].fi # g[c].fi => Iterates(c)
    /\ Iterates(c)
       => /\ calls'[c].listing = calls[c].listing + 1
          /\ calls'[c].content \in {calls[c].content, calls[c].content + 1}
          /\ calls'[c].content # calls[c].content
             => /\ IsLFSDeclared(g[c].lfsFilter, IterFile(c))
                /\ g'[c].last.err = Nil
                /\ InPointerWindow(g'[c].last.size)
          /\ g'[c].files = g[c].files
    /\ ~Iterates(c)
       => /\ calls'[c].listing = calls[c].listing
          /\ calls'[c].content = calls[c].content
    /\ (g[c].pc = "files" /\ g'[c].pc # "files") => g[c].fi = Len(g[c].files)
    /\ g[c].pc # "idle" => g'[c].pc # "idle"
    /\ Finished(c) => Finished(c)'

\* C22: with every API call returning, the goroutine started for a distinct
\* commit always returns: once started it never goes back to idle, and from
\* some point on it is not running any more; it goes through
\* added ++ modified one file per iteration, in order and to the end, with
\* one directory listing per file and at most one content fetch per file,
\* made only for a file declared for LFS whose size is in [20,150]; it
\* leaves the loop only after the last file, whatever failed on the way,
\* and then returns with or without a post.
C22_UnitTerminates ==
    /\ [](\A c \in DOMAIN Commits : CallsPerFile(c))
    /\ [][\A c \in DOMAIN Commits : LoopStep(c)]_vars
    /\ \A c \in units : <>[](~Started(c))

\* C22 witness: a goroutine has returned after two files, with two
\* listings and one content fetch, and one of the two files in
\* lfsInvalidPointers.
C22_Witness ==
    \E c \in DOMAIN Commits :
        /\ Done(c)
        /\ Len(g[c].files) = 2
        /\ calls[c].listing = 2
        /\ calls[c].content = 1
        /\ Len(g[c].lfsInvalidPointers) = 1

\* the verdicts that apply to the iteration goroutine c runs in this step
Verdicts(c) ==
    {v \in {"ok", "invalid-pointer", "size-suggestion", "lookup-error"} :
        \/ v = "invalid-pointer" /\ AppendsInvalid(c)
        \/ v = "size-suggestion" /\ AppendsCandidate(c)
        \/ v = "lookup-error"
           /\ \/ g'[c].last.err # Nil
              \/ g'[c].last.verr \notin {Nil, errLFSPointer}
        \/ v = "ok"
           /\ g'[c].last.err = Nil
           /\ g'[c].last.verr = Nil
           /\ KeepsInvalid(c)
           /\ KeepsCandidates(c)}

\* what one iteration does with the two lists
OneVerdict(c) ==
    /\ Cardinality(Verdicts(c)) = 1
    /\ AppendsInvalid(c) \/ KeepsInvalid(c)
    /\ AppendsCandidate(c) \/ KeepsCandidates(c)
    /\ KeepsInvalid(c) \/ KeepsCandidates(c)
    /\ IsLFSDeclared(g[c].lfsFilter, IterFile(c)) => KeepsCandidates(c)
    /\ ~IsLFSDeclared(g[c].lfsFilter, IterFile(c)) => KeepsInvalid(c)

\* C23: every iteration of the loop, one per occurrence of a file in
\* added ++ modified, ends with exactly one verdict and appends its file to
\* one list at most; a file the filter of .gitattributes matches is never
\* appended to lfsCandidates, whatever its size and whether its pointer is
\* valid, invalid or could not be fetched, and a file it does not match is
\* never appended to lfsInvalidPointers; a step that is no iteration
\* leaves both lists as they are.
C23_OneVerdictPerOccurrence ==
    [][\A c \in DOMAIN Commits :
          /\ Iterates(c) => OneVerdict(c)
          /\ ~Iterates(c)
             => /\ g'[c].lfsInvalidPointers = g[c].lfsInvalidPointers
                /\ g'[c].lfsCandidates = g[c].lfsCandidates]_vars

\* C23 witness: with suggestions enabled, a file that .gitattributes
\* declares has just been validated, its size is over the threshold that
\* applies to it, and it is in lfsInvalidPointers and not in lfsCandidates.
C23_Witness ==
    \E c \in DOMAIN Commits :
        /\ JustClassified(c)
        /\ g[c].last.validated
        /\ g[c].config.LFSSuggestionsEnabled
        /\ g[c].last.size > ThresholdFor(g[c].config, LastFile(c))
        /\ g[c].lfsInvalidPointers = <<LastFile(c)>>
        /\ g[c].lfsCandidates = << >>

\* the call of request r has returned a WatchDog
Succeeded(r) == requests[r].pc = "return" /\ ~requests[r].err

\* the calls that have built a WatchDog for installation id
BuiltFor(id) ==
    {r \in Requests : requests[r].installationID = id /\ requests[r].built}

\* the successful calls for one installation have returned one WatchDog
SameWatchDog ==
    \A r1, r2 \in Requests :
        (/\ Succeeded(r1)
         /\ Succeeded(r2)
         /\ requests[r1].installationID = requests[r2].installationID)
        => requests[r1].gatekeeper = requests[r2].gatekeeper

\* an entry of clients, once stored, stays as it is
NeverReplaced ==
    \A id \in InstallationIDs :
        group.clients[id] # NoWatchDog => group'.clients[id] = group.clients[id]

\* a call that fails to build its client leaves clients as it is
FailureKeepsClients ==
    \A r \in Requests :
        (requests[r].pc = "build" /\ requests'[r].err) => group'.clients = group.clients

\* C24: under every interleaving of concurrent calls of GetWatchdog, the
\* successful calls for one installation ID return the same WatchDog, at
\* most one WatchDog is built and stored per installation ID, an entry of
\* clients once stored is never replaced, and a call that fails to build
\* its client leaves clients unchanged.
C24_OneClientPerInstallation ==
    /\ [](SameWatchDog /\ \A id \in InstallationIDs : Cardinality(BuiltFor(id)) <= 1)
    /\ [][NeverReplaced /\ FailureKeepsClients]_vars

====
